---- MODULE Spec2Model ----
(***************************************************************************)
(* Seat-map highlighting tool (src/app.py): the text parser, the class     *)
(* name normaliser, the coordinate index built from the three layer        *)
(* sheets, the reconcile loop and the export step of one run.              *)
(*                                                                         *)
(* A text is a sequence of characters.  Each character is a one-element    *)
(* string, except that the letter run "Class" (the marker the regular      *)
(* expressions name literally) is one element, and the non-ASCII           *)
(* characters carry ASCII names:                                           *)
(*   FWSP   U+3000 full-width space     RETSU  the row glyph               *)
(*   TOUTEN U+3001 ideographic comma    FWDOT  U+FF0E full-width period    *)
(*   NAKAGURO U+30FB middle dot                                            *)
(***************************************************************************)
EXTENDS Integers, Sequences, FiniteSets, TLC

\* ------------------------------------------------------------ characters

MARK == "Class"
FWSP == "u3000"
RETSU == "retsu"
TOUTEN == "touten"
FWDOT == "fwdot"
NAKAGURO == "nakaguro"

\* \s of the regular expressions and the characters str.strip() removes
Whitespace == {" ", "\t", "\n", FWSP}

\* \d of the regular expressions, and the characters of str.isdigit()
DigitChars == {"0", "1", "3", "4"}

\* the separators of the seat list: [、,．.\s・]
SeatSeps == {TOUTEN, ",", FWDOT, ".", NAKAGURO} \cup Whitespace

\* the seat-list region of the grammar: [\d\s、,．.・]
SeatRegionChars == DigitChars \cup Whitespace \cup {TOUTEN, ",", FWDOT, ".", NAKAGURO}

Alphabet == {MARK, "S", "T", "x", RETSU} \cup SeatRegionChars

\* \S of the regular expressions
NonSpace == Alphabet \ Whitespace

\* the value int() gives one decimal digit
DigitVal(ch) == CASE ch = "0" -> 0 [] ch = "1" -> 1 [] ch = "3" -> 3 [] ch = "4" -> 4

\* ------------------------------------------------------- string helpers

\* The last index of the longest run of characters of cls that starts at i
\* (i - 1 when s[i] is not in cls): what a greedy cls* consumes from i.
RunEnd(s, i, cls) ==
    CHOOSE j \in (i - 1)..Len(s) :
        /\ \A k \in i..j : s[k] \in cls
        /\ (j = Len(s) \/ s[j + 1] \notin cls)

\* str.strip()
Strip(s) ==
    LET keep == {i \in 1..Len(s) : s[i] \notin Whitespace}
    IN IF keep = {} THEN <<>>
       ELSE LET lo == CHOOSE i \in keep : \A j \in keep : i <= j
                hi == CHOOSE i \in keep : \A j \in keep : j <= i
            IN SubSeq(s, lo, hi)

\* str.isdigit()
IsDigitStr(s) == Len(s) > 0 /\ \A i \in 1..Len(s) : s[i] \in DigitChars

\* int() of a string of decimal digits
RECURSIVE IntOfDigits(_)
IntOfDigits(ds) ==
    IF ds = <<>> THEN 0
    ELSE 10 * IntOfDigits(SubSeq(ds, 1, Len(ds) - 1)) + DigitVal(ds[Len(ds)])

\* text.replace('　', ' ')
ReplaceFullWidth(text) ==
    [i \in 1..Len(text) |-> IF text[i] = FWSP THEN " " ELSE text[i]]

\* ---------------------------------------------------------------- parser

\* The lookahead (?=Class\s) holds at position i.
AtMarker(text, i) ==
    /\ i + 1 <= Len(text)
    /\ text[i] = MARK
    /\ text[i + 1] \in Whitespace

\* The first position >= i where the lookahead holds, Len(text) + 1 if none.
NextMarker(text, i) ==
    LET hits == {j \in i..Len(text) : AtMarker(text, j)}
    IN IF hits = {} THEN Len(text) + 1
       ELSE CHOOSE j \in hits : \A k \in hits : j <= k

RECURSIVE SplitFrom(_, _)
SplitFrom(text, start) ==
    LET nxt == NextMarker(text, start + 1)
    IN IF nxt > Len(text) THEN << SubSeq(text, start, Len(text)) >>
       ELSE << SubSeq(text, start, nxt - 1) >> \o SplitFrom(text, nxt)

\* no cut at all: the whole text is one block
SplitBlocks_NoSplit(text) == << text >>

\* re.split(r'(?=Class\s)', text): the text is cut before every marker that
\* a whitespace character follows (re.split cuts at an empty match from
\* Python 3.7 on); a marker at the very start leaves an empty first piece.
SplitBlocks(text) ==
    IF AtMarker(text, 1) THEN << <<>> >> \o SplitFrom(text, 1)
    ELSE SplitFrom(text, 1)

NoMatch == [ok |-> FALSE, class |-> <<>>, row |-> <<>>, seat |-> <<>>]

\* \s+(\d+)列\s*([\d\s、,．.・]+) matched from position i of block b, with
\* the class name already taken.  Every quantifier is greedy; the only
\* backtracking that can succeed is \s* giving back its last character when
\* no seat-region character follows the whitespace run.
TailMatch(b, i, class) ==
    LET e1 == RunEnd(b, i, Whitespace)
        e2 == RunEnd(b, e1 + 1, DigitChars)
        e3 == RunEnd(b, e2 + 2, Whitespace)
        e4 == RunEnd(b, e3 + 1, SeatRegionChars)
    IN IF e1 < i \/ e2 < e1 + 1 THEN NoMatch
       ELSE IF e2 + 1 > Len(b) \/ b[e2 + 1] # RETSU THEN NoMatch
       ELSE IF e4 >= e3 + 1
            THEN [ok |-> TRUE, class |-> class,
                  row |-> SubSeq(b, e1 + 1, e2), seat |-> SubSeq(b, e3 + 1, e4)]
       ELSE IF e3 >= e2 + 2
            THEN [ok |-> TRUE, class |-> class,
                  row |-> SubSeq(b, e1 + 1, e2), seat |-> << b[e3] >>]
       ELSE NoMatch

\* re.match(r'(Class\s+\S+(?:\s+\S+)?)\s+(\d+)列\s*([\d\s、,．.・]+)', block):
\* the optional second qualifier token is tried first (greedy ?), and is
\* given up only when the rest does not match after it.
MatchFirst(b) ==
    IF Len(b) = 0 \/ b[1] # MARK THEN NoMatch
    ELSE
    LET e0 == RunEnd(b, 2, Whitespace)
        t1 == RunEnd(b, e0 + 1, NonSpace)
        w  == RunEnd(b, t1 + 1, Whitespace)
        t2 == RunEnd(b, w + 1, NonSpace)
        long == IF w >= t1 + 1 /\ t2 >= w + 1
                THEN TailMatch(b, t2 + 1, SubSeq(b, 1, t2)) ELSE NoMatch
    IN IF e0 < 2 \/ t1 < e0 + 1 THEN NoMatch
       ELSE IF long.ok THEN long
       ELSE TailMatch(b, t1 + 1, SubSeq(b, 1, t1))

\* re.match(r'(Class\s+\S+\s+\S+)\s+(\d+)列\s*([\d\s、,．.・]+)', block)
MatchSecond(b) ==
    IF Len(b) = 0 \/ b[1] # MARK THEN NoMatch
    ELSE
    LET e0 == RunEnd(b, 2, Whitespace)
        t1 == RunEnd(b, e0 + 1, NonSpace)
        w  == RunEnd(b, t1 + 1, Whitespace)
        t2 == RunEnd(b, w + 1, NonSpace)
    IN IF e0 < 2 \/ t1 < e0 + 1 \/ w < t1 + 1 \/ t2 < w + 1 THEN NoMatch
       ELSE TailMatch(b, t2 + 1, SubSeq(b, 1, t2))

\* m = re.match(first); if not m: m = re.match(second)
MatchBlock(b) ==
    IF MatchFirst(b).ok THEN MatchFirst(b) ELSE MatchSecond(b)

RECURSIVE SeatSplitFrom(_, _)
SeatSplitFrom(s, start) ==
    LET e == RunEnd(s, start, Alphabet \ SeatSeps)
        sepEnd == RunEnd(s, e + 1, SeatSeps)
    IN IF sepEnd < e + 1 THEN << SubSeq(s, start, e) >>
       ELSE << SubSeq(s, start, e) >> \o SeatSplitFrom(s, sepEnd + 1)

\* re.split(r'[、,．.\s・]+', s): the pieces between the separator runs; a
\* separator run at either end leaves an empty piece there.
SeatSplit(s) == SeatSplitFrom(s, 1)

RECURSIVE SeatRequests(_, _, _)
SeatRequests(class_name, row_num, seat_parts) ==
    IF seat_parts = <<>> THEN <<>>
    ELSE LET sp == Strip(Head(seat_parts))
             rest == SeatRequests(class_name, row_num, Tail(seat_parts))
         IN IF IsDigitStr(sp)
            THEN << <<class_name, row_num, IntOfDigits(sp)>> >> \o rest
            ELSE rest

\* What the loop body appends to results once the block matched as m:
\* class_name = m.group(1).strip(), row_num = int(m.group(2)), and one
\* request for each piece of the seat list that is decimal digits.
MatchRequests(m) ==
    SeatRequests(Strip(m.class), IntOfDigits(m.row), SeatSplit(Strip(m.seat)))

\* The body of the loop over blocks for one block: the requests it appends
\* to results, in order.
BlockRequests(block) ==
    LET b == Strip(block)
        m == MatchBlock(b)
    IN IF b = <<>> THEN <<>>
       ELSE IF ~m.ok THEN <<>>
       ELSE MatchRequests(m)

RECURSIVE AllBlockRequests(_)
AllBlockRequests(blocks) ==
    IF blocks = <<>> THEN <<>>
    ELSE BlockRequests(Head(blocks)) \o AllBlockRequests(Tail(blocks))

\* results, as the loop of parse_seat_text leaves it (duplicates included)
ParseResults(text) == AllBlockRequests(SplitBlocks(ReplaceFullWidth(text)))

\* set(results)
ResultSet(results) == {results[i] : i \in DOMAIN results}

\* list(...) of a set: one of its orderings, which one is not specified
Orderings(S) ==
    {q \in [1..Cardinality(S) -> S] : \A i, j \in DOMAIN q : q[i] = q[j] => i = j}

\* parse_seat_text returning results as it stands, duplicates kept
parse_seat_text_NoDedup(text) == {ParseResults(text)}

\* the values parse_seat_text can return for a text
parse_seat_text(text) == Orderings(ResultSet(ParseResults(text)))

\* re.sub(r'\s+', ' ', s.strip()): every whitespace run becomes one space
RECURSIVE CollapseFrom(_, _)
CollapseFrom(s, i) ==
    IF i > Len(s) THEN <<>>
    ELSE IF s[i] \in Whitespace
         THEN << " " >> \o CollapseFrom(s, RunEnd(s, i, Whitespace) + 1)
         ELSE << s[i] >> \o CollapseFrom(s, i + 1)

normalize_class(s) == CollapseFrom(Strip(s), 1)

\* ------------------------------------------------------------- workbook

\* A cell value as openpyxl returns it: None, an int, a float (kept in
\* tenths: 35 is 3.5) or a str.
NoneCell == [t |-> "none", n |-> 0, s |-> <<>>]
IntCell(n) == [t |-> "int", n |-> n, s |-> <<>>]
FloatCell(tenths) == [t |-> "float", n |-> tenths, s |-> <<>>]
StrCell(s) == [t |-> "str", n |-> 0, s |-> s]

RECURSIVE DecimalDigits(_)
DecimalDigits(n) ==
    LET d == << "0", "1", "2", "3", "4", "5", "6", "7", "8", "9" >>[(n % 10) + 1]
    IN IF n < 10 THEN << d >> ELSE DecimalDigits(n \div 10) \o << d >>

\* str(cv) of a class-sheet value that is not None
StrOf(cell) ==
    IF cell.t = "str" THEN cell.s
    ELSE IF cell.t = "int" THEN DecimalDigits(cell.n)
    ELSE DecimalDigits(cell.n \div 10) \o << ".", DecimalDigits(cell.n % 10)[1] >>

\* int(v) succeeds: an int, a float, or a str that is decimal digits once
\* the surrounding whitespace is removed (else ValueError, caught)
CanInt(cell) ==
    \/ cell.t \in {"int", "float"}
    \/ cell.t = "str" /\ IsDigitStr(Strip(cell.s))

\* int(v) where it succeeds; a float is truncated
IntOf(cell) ==
    IF cell.t = "int" THEN cell.n
    ELSE IF cell.t = "float"
         THEN IF cell.n >= 0 THEN cell.n \div 10 ELSE -((-cell.n) \div 10)
    ELSE IntOfDigits(Strip(cell.s))

SEAT_SHEET == "BlockMap_SeatNumber"
ROW_SHEET == "BlockMap_Row"
CLASS_SHEET == "BlockMap_Class"

required_sheets == << SEAT_SHEET, ROW_SHEET, CLASS_SHEET >>

BLUE_FILL == "0000FF"
ORIG_FILL == "as_uploaded"

\* bounds of the uploaded sheets: the grid, and how many of its positions
\* hold data
MaxRow == 2
MaxCol == 2
MaxFilled == 2

GridPos == (1..MaxRow) \X (1..MaxCol)

\* What one grid position holds in the three layer sheets.
Layers(cv, rv, sv) == [cv |-> cv, rv |-> rv, sv |-> sv]

EmptyCell == Layers(NoneCell, NoneCell, NoneCell)

ClassS == << MARK, " ", "S" >>

\* The data a position may hold: a plain seat; the same seat written with
\* other spacing, a text row number and a float seat number; another seat;
\* a decorative cell whose row value is no number; one whose seat value is
\* no number.
CellKinds ==
    { Layers(StrCell(ClassS), IntCell(1), IntCell(3)),
      Layers(StrCell(<< MARK, " ", "\t", "S", " " >>), StrCell(<< " ", "1" >>), FloatCell(35)),
      Layers(StrCell(ClassS), IntCell(1), IntCell(4)),
      Layers(StrCell(ClassS), StrCell(<< RETSU >>), IntCell(3)),
      Layers(IntCell(1), IntCell(1), StrCell(<< "x" >>)) }

EmptyGrid == [p \in GridPos |-> EmptyCell]

Grids ==
    { [p \in GridPos |-> IF p \in DOMAIN g THEN g[p] ELSE EmptyCell] :
        g \in UNION { [F -> CellKinds] :
                        F \in {F \in SUBSET GridPos : Cardinality(F) <= MaxFilled} } }

NoFile == [present |-> FALSE, sheetnames |-> {}, cells |-> EmptyGrid]

\* the files the uploader can hold
Uploads ==
    { [present |-> TRUE, sheetnames |-> sn, cells |-> EmptyGrid] :
        sn \in (SUBSET ResultSet(required_sheets)) \ {ResultSet(required_sheets)} }
    \cup { [present |-> TRUE, sheetnames |-> ResultSet(required_sheets), cells |-> g] :
             g \in Grids }

\* the texts the text area can hold in a run
RunTexts ==
    { << " ", "\n" >>,
      << "S", " ", "1", RETSU >>,
      ClassS \o << " ", "1", RETSU, "3" >>,
      << MARK, "\t", " ", "S", FWSP, "1", RETSU, "0", "3", TOUTEN, "4" >>,
      << MARK, " ", "S", " ", "T", " ", "1", RETSU, "3", "\n" >> \o ClassS \o << " ", "1", RETSU, "4" >> }

\* ws_class.max_row / ws_class.max_column: the last row / column of the
\* class sheet that holds a cell (1 for a sheet without cells)
max_row(cells) ==
    LET used == {p[1] : p \in {q \in GridPos : cells[q].cv # NoneCell}}
    IN IF used = {} THEN 1 ELSE CHOOSE r \in used : \A x \in used : x <= r

max_column(cells) ==
    LET used == {p[2] : p \in {q \in GridPos : cells[q].cv # NoneCell}}
    IN IF used = {} THEN 1 ELSE CHOOSE c \in used : \A x \in used : x <= c

\* the key a position's three values give
CellKey(cell) == << normalize_class(StrOf(cell.cv)), IntOf(cell.rv), IntOf(cell.sv) >>

\* coord_map[key] = value
MapPut(map, key, value) ==
    [k \in (DOMAIN map) \cup {key} |-> IF k = key THEN value ELSE map[k]]

\* the coordinate stored with row and column exchanged
ScanCell_Transposed(cells, r, c, map) ==
    LET cell == cells[<< r, c >>]
    IN IF cell.cv = NoneCell \/ cell.rv = NoneCell \/ cell.sv = NoneCell THEN map
       ELSE IF ~CanInt(cell.rv) THEN map
       ELSE IF ~CanInt(cell.sv) THEN map
       ELSE MapPut(map, CellKey(cell), << c, r >>)

\* a key already in the map keeps its first coordinate
ScanCell_KeepFirst(cells, r, c, map) ==
    LET cell == cells[<< r, c >>]
    IN IF cell.cv = NoneCell \/ cell.rv = NoneCell \/ cell.sv = NoneCell THEN map
       ELSE IF ~CanInt(cell.rv) THEN map
       ELSE IF ~CanInt(cell.sv) THEN map
       ELSE IF CellKey(cell) \in DOMAIN map THEN map
       ELSE MapPut(map, CellKey(cell), << r, c >>)

\* The body of the scan loops for position (r, c).
ScanCell(cells, r, c, map) ==
    LET cell == cells[<< r, c >>]
    IN IF cell.cv = NoneCell \/ cell.rv = NoneCell \/ cell.sv = NoneCell THEN map
       ELSE IF ~CanInt(cell.rv) THEN map
       ELSE IF ~CanInt(cell.sv) THEN map
       ELSE MapPut(map, CellKey(cell), << r, c >>)

\* for r in range(1, max_row + 1): for c in range(1, max_col + 1): ...
RECURSIVE ScanFrom(_, _, _, _)
ScanFrom(cells, r, c, map) ==
    IF r > max_row(cells) THEN map
    ELSE IF c > max_column(cells) THEN ScanFrom(cells, r + 1, 1, map)
    ELSE ScanFrom(cells, r, c + 1, ScanCell(cells, r, c, map))

BuildCoordMap(cells) == ScanFrom(cells, 1, 1, <<>>)

\* the key built from the class name as parsed
LookupKey_Raw(req) == << req[1], req[2], req[3] >>

\* key = (normalize_class(class_name), row_num, seat_num)
LookupKey(req) == << normalize_class(req[1]), req[2], req[3] >>

\* the fill given to every cell of the row
ApplyFill_WholeRow(f, coord) ==
    [p \in DOMAIN f |-> IF p[1] = coord[1] THEN BLUE_FILL ELSE f[p]]

\* ws_seat.cell(row=r, column=c).fill = BLUE_FILL
ApplyFill(f, coord) == [f EXCEPT ![coord] = BLUE_FILL]

\* every required sheet reported, present or not
MissingSheets_All(sheetnames) ==
    IF ResultSet(required_sheets) \subseteq sheetnames THEN <<>> ELSE required_sheets

\* missing = [s for s in required_sheets if s not in wb.sheetnames]
MissingSheets(sheetnames) ==
    LET Absent(s) == s \notin sheetnames
    IN SelectSeq(required_sheets, Absent)

\* ------------------------------------------------------------ the run

VARIABLES
    pc,          \* where the script is: form, parse, load, scan, reconcile, done, stopped
    seat_text,   \* the text area
    uploaded,    \* the uploaded file
    seats,       \* what parse_seat_text returned
    err,         \* what st.error showed
    coord_map,   \* the coordinate index
    idx,         \* the position of the reconcile loop in seats
    matched,
    unmatched,
    fill,        \* the fill of each cell of the seat sheet
    out_buf,     \* the workbook written for download
    blockA,      \* two seat-entry statements, and what parsing them in
    blockB,      \* either order gives
    resAB,
    resBA

vars == << pc, seat_text, uploaded, seats, err, coord_map, idx, matched,
           unmatched, fill, out_buf, blockA, blockB, resAB, resBA >>

runVars == << seats, err, coord_map, idx, matched, unmatched, fill, out_buf >>
orderVars == << blockA, blockB, resAB, resBA >>

NoError == [kind |-> "none", missing |-> <<>>]
ParseError == [kind |-> "unparseable", missing |-> <<>>]
SheetError(missing) == [kind |-> "missing_sheets", missing |-> missing]

NoOutput == [built |-> FALSE, fill |-> [p \in GridPos |-> ORIG_FILL]]

RunStart ==
    /\ seats = <<>>
    /\ err = NoError
    /\ coord_map = <<>>
    /\ idx = 1
    /\ matched = <<>>
    /\ unmatched = <<>>
    /\ fill = [p \in GridPos |-> ORIG_FILL]
    /\ out_buf = NoOutput

OrderIdle ==
    /\ blockA = <<>>
    /\ blockB = <<>>
    /\ resAB = {}
    /\ resBA = {}

Init ==
    /\ pc = "form"
    /\ seat_text \in RunTexts
    /\ uploaded \in Uploads \cup {NoFile}
    /\ RunStart
    /\ OrderIdle

\* The button: disabled while no file is uploaded or the text is blank.
ClickRun ==
    /\ pc = "form"
    /\ uploaded.present
    /\ Strip(seat_text) # <<>>
    /\ pc' = "parse"
    /\ UNCHANGED << seat_text, uploaded, runVars, orderVars >>

\* the error shown, the script not stopped
Parse_NoStop ==
    /\ pc = "parse"
    /\ \E s \in parse_seat_text(seat_text) :
          /\ seats' = s
          /\ err' = IF s = <<>> THEN ParseError ELSE err
          /\ pc' = "load"
    /\ UNCHANGED << seat_text, uploaded, coord_map, idx, matched, unmatched,
                    fill, out_buf, orderVars >>

\* seats = parse_seat_text(seat_text); if not seats: st.error; st.stop()
Parse ==
    /\ pc = "parse"
    /\ \E s \in parse_seat_text(seat_text) :
          /\ seats' = s
          /\ IF s = <<>>
             THEN err' = ParseError /\ pc' = "stopped"
             ELSE err' = err /\ pc' = "load"
    /\ UNCHANGED << seat_text, uploaded, coord_map, idx, matched, unmatched,
                    fill, out_buf, orderVars >>

\* wb = load_workbook(...); missing = [...]; if missing: st.error; st.stop()
LoadWorkbook ==
    /\ pc = "load"
    /\ LET missing == MissingSheets(uploaded.sheetnames)
       IN IF missing # <<>>
          THEN err' = SheetError(missing) /\ pc' = "stopped"
          ELSE err' = err /\ pc' = "scan"
    /\ UNCHANGED << seat_text, uploaded, seats, coord_map, idx, matched,
                    unmatched, fill, out_buf, orderVars >>

\* the scan of the three sheets that builds coord_map
Scan ==
    /\ pc = "scan"
    /\ coord_map' = BuildCoordMap(uploaded.cells)
    /\ idx' = 1
    /\ pc' = "reconcile"
    /\ UNCHANGED << seat_text, uploaded, seats, err, matched, unmatched,
                    fill, out_buf, orderVars >>

\* one pass of the reconcile loop, key in coord_map
ReconcileHit ==
    /\ pc = "reconcile"
    /\ idx <= Len(seats)
    /\ LookupKey(seats[idx]) \in DOMAIN coord_map
    /\ LET coord == coord_map[LookupKey(seats[idx])]
       IN /\ fill' = ApplyFill(fill, coord)
          /\ matched' = Append(matched, [req |-> seats[idx], cell |-> coord])
    /\ idx' = idx + 1
    /\ UNCHANGED << pc, seat_text, uploaded, seats, err, coord_map, unmatched,
                    out_buf, orderVars >>

\* a request that is not found is recorded nowhere
ReconcileMiss_Dropped ==
    /\ pc = "reconcile"
    /\ idx <= Len(seats)
    /\ LookupKey(seats[idx]) \notin DOMAIN coord_map
    /\ idx' = idx + 1
    /\ UNCHANGED << pc, seat_text, uploaded, seats, err, coord_map, matched,
                    unmatched, fill, out_buf, orderVars >>

\* one pass of the reconcile loop, key not in coord_map
ReconcileMiss ==
    /\ pc = "reconcile"
    /\ idx <= Len(seats)
    /\ LookupKey(seats[idx]) \notin DOMAIN coord_map
    /\ unmatched' = Append(unmatched, [req |-> seats[idx]])
    /\ idx' = idx + 1
    /\ UNCHANGED << pc, seat_text, uploaded, seats, err, coord_map, matched,
                    fill, out_buf, orderVars >>

\* the copy of the seat sheet, fills included, saved to out_buf
Export ==
    /\ pc = "reconcile"
    /\ idx > Len(seats)
    /\ out_buf' = [built |-> TRUE, fill |-> fill]
    /\ pc' = "done"
    /\ UNCHANGED << seat_text, uploaded, seats, err, coord_map, idx, matched,
                    unmatched, fill, orderVars >>

Next ==
    \/ ClickRun
    \/ Parse
    \/ LoadWorkbook
    \/ Scan
    \/ ReconcileHit
    \/ ReconcileMiss
    \/ Export

Spec == Init /\ [][Next]_vars

\* ------------------------------------------- the parser on its own inputs

RECURSIVE Flatten(_)
Flatten(ls) == IF ls = <<>> THEN <<>> ELSE Head(ls) \o Flatten(Tail(ls))

SeqsUpTo(S, n) == UNION { [1..k -> S] : k \in 0..n }

\* bounds of the texts given to the parser: how many pieces a text is put
\* together from, and how many follow the marker of a seat-entry statement
MaxLexemes == 4
MaxOrderLexemes == 2

\* the pieces: "Class S", " 1列", "3", "、03", " T", a newline, a
\* full-width space, "・4", and the whole statement "Class S 1列3"
ParseLexicon ==
    { ClassS,
      << " ", "1", RETSU >>,
      << "3" >>,
      << TOUTEN, "0", "3" >>,
      << " ", "T" >>,
      << "\n" >>,
      << FWSP >>,
      << NAKAGURO, "4" >>,
      ClassS \o << " ", "1", RETSU, "3" >> }

ParseTexts == { Flatten(ls) : ls \in SeqsUpTo(ParseLexicon, MaxLexemes) }

\* the fixed file of the runs that exercise the parser
PlainUpload ==
    [present |-> TRUE, sheetnames |-> ResultSet(required_sheets), cells |-> EmptyGrid]

InitParse ==
    /\ pc = "parse"
    /\ seat_text \in ParseTexts
    /\ uploaded = PlainUpload
    /\ RunStart
    /\ OrderIdle

NextParse == Parse

SpecParse == InitParse /\ [][NextParse]_vars

\* the pieces that follow "Class " in a seat-entry statement: "S 1列3", "4",
\* "、", "S ", the marker again, "1列"
OrderLexicon ==
    { << "S", " ", "1", RETSU, "3" >>,
      << "4" >>,
      << TOUTEN >>,
      << "S", " " >>,
      << MARK >>,
      << "1", RETSU >> }

\* seat-entry statements: each starts with the marker and a space
OrderBlocks ==
    { << MARK, " " >> \o Flatten(ls) : ls \in SeqsUpTo(OrderLexicon, MaxOrderLexemes) }

InitOrder ==
    /\ pc = "order"
    /\ seat_text = <<>>
    /\ uploaded = NoFile
    /\ RunStart
    /\ blockA \in OrderBlocks
    /\ blockB \in OrderBlocks
    /\ resAB = {}
    /\ resBA = {}

\* parse_seat_text(A + "\n" + B) and parse_seat_text(B + "\n" + A), as sets
ParseBothOrders ==
    /\ pc = "order"
    /\ \E s \in parse_seat_text(blockA \o << "\n" >> \o blockB) :
          resAB' = ResultSet(s)
    /\ \E s \in parse_seat_text(blockB \o << "\n" >> \o blockA) :
          resBA' = ResultSet(s)
    /\ pc' = "order_done"
    /\ UNCHANGED << seat_text, uploaded, runVars, blockA, blockB >>

NextOrder == ParseBothOrders

SpecOrder == InitOrder /\ [][NextOrder]_vars

\* ---------------------------------------------------------------- claims

MatchedReqs == {matched[j].req : j \in DOMAIN matched}
UnmatchedReqs == {unmatched[j].req : j \in DOMAIN unmatched}

\* how often request q stands in the two lists
TimesListed(q) ==
    Cardinality({j \in DOMAIN matched : matched[j].req = q})
    + Cardinality({j \in DOMAIN unmatched : unmatched[j].req = q})

\* the reconcile loop has gone through all of seats
ReconcileOver == pc = "done" \/ (pc = "reconcile" /\ idx > Len(seats))

\* the required sheets the uploaded file lacks
AbsentSheets == ResultSet(required_sheets) \ uploaded.sheetnames

NoCellFilled == \A p \in GridPos : fill[p] = ORIG_FILL

\* position p holds three values the scan indexes
Indexable(p) ==
    LET cell == uploaded.cells[p]
    IN /\ p[1] <= max_row(uploaded.cells)
       /\ p[2] <= max_column(uploaded.cells)
       /\ cell.cv # NoneCell /\ cell.rv # NoneCell /\ cell.sv # NoneCell
       /\ CanInt(cell.rv) /\ CanInt(cell.sv)

\* the positions whose three values give key
PositionsOf(key) ==
    {p \in GridPos : Indexable(p) /\ CellKey(uploaded.cells[p]) = key}

\* C1: once the reconcile loop is over, every request of seats stands exactly
\* once in matched and unmatched together, and len(matched) + len(unmatched)
\* is the number of distinct requests parse_seat_text found in the text;
\* while the loop runs, the two lists hold the requests gone through so far.
C1_ReconcilePartitions ==
    /\ pc = "reconcile" => Len(matched) + Len(unmatched) = idx - 1
    /\ ReconcileOver =>
          /\ Len(matched) + Len(unmatched) = Len(seats)
          /\ \A i \in DOMAIN seats : TimesListed(seats[i]) = 1
          /\ MatchedReqs \cup UnmatchedReqs = ResultSet(seats)
    /\ pc = "done" =>
          Len(matched) + Len(unmatched)
              = Cardinality(ResultSet(ParseResults(seat_text)))

C1_Witness ==
    /\ pc = "done"
    /\ Len(matched) >= 1
    /\ Len(unmatched) >= 1
    /\ Len(seats) = 2

\* C2 as stated: whatever the text, a run on a file that lacks a required
\* sheet ends stopped, with the error that names exactly the absent sheets,
\* and without output.
C2_AnyTextStructuralError ==
    (pc \in {"stopped", "done"} /\ AbsentSheets # {}) =>
        /\ pc = "stopped"
        /\ err.kind = "missing_sheets"
        /\ ResultSet(err.missing) = AbsentSheets
        /\ ~out_buf.built

\* C2, amended: on a file that lacks a required sheet the run never gets
\* past the sheet check and builds no output; it ends stopped, with the
\* error that names exactly the absent sheets (each once) when the text gave
\* at least one request, and with the input error when the text gave none.
C2_MissingSheetsHalt ==
    AbsentSheets # {} =>
        /\ pc \in {"form", "parse", "load", "stopped"}
        /\ ~out_buf.built
        /\ pc = "load" => seats # <<>>
        /\ pc = "stopped" =>
              IF seats = <<>>
              THEN err = ParseError
              ELSE /\ err.kind = "missing_sheets"
                   /\ ResultSet(err.missing) = AbsentSheets
                   /\ Len(err.missing) = Cardinality(AbsentSheets)

C2_Witness ==
    /\ pc = "stopped"
    /\ seats # <<>>
    /\ err.kind = "missing_sheets"
    /\ Len(err.missing) = 2

\* C3: a cell fill has changed or the output workbook exists only when the
\* parse gave at least one request, all three required sheets are present
\* and no error was shown; a stopped run has shown an error, changed no fill
\* and built no output.
C3_EffectsOnlyAfterChecks ==
    /\ (~NoCellFilled \/ out_buf.built) =>
          /\ seats # <<>>
          /\ AbsentSheets = {}
          /\ err = NoError
          /\ pc \in {"reconcile", "done"}
    /\ pc = "stopped" => (err # NoError /\ NoCellFilled /\ ~out_buf.built)
    /\ pc \in {"form", "parse", "load", "scan"} => (NoCellFilled /\ ~out_buf.built)

C3_Witness ==
    /\ pc = "done"
    /\ out_buf.built
    /\ ~NoCellFilled
    /\ out_buf.fill = fill

\* C4: after the scan, every position of the class sheet's rectangle whose
\* three values are present and whose row and seat values convert to
\* integers has its key in coord_map, and the coordinate stored for that key
\* is a position whose three values give the same key.
C4_IndexRoundTrip ==
    pc \in {"reconcile", "done"} =>
        \A p \in GridPos :
            Indexable(p) =>
                LET key == CellKey(uploaded.cells[p])
                IN /\ key \in DOMAIN coord_map
                   /\ coord_map[key] \in GridPos
                   /\ Indexable(coord_map[key])
                   /\ CellKey(uploaded.cells[coord_map[key]]) = key

C4_Witness ==
    /\ pc = "reconcile"
    /\ \E p \in GridPos :
          /\ Indexable(p)
          /\ uploaded.cells[p].rv.t = "str"
          /\ uploaded.cells[p].sv.t = "float"
          /\ coord_map[CellKey(uploaded.cells[p])] = p
    /\ \E p \in GridPos : uploaded.cells[p].cv # NoneCell /\ ~Indexable(p)

\* the words of a class name: its longest runs of non-whitespace characters.
\* Two names are equal after collapsing whitespace runs and trimming exactly
\* when they have the same words.
RECURSIVE WordsFrom(_, _)
WordsFrom(s, i) ==
    IF i > Len(s) THEN <<>>
    ELSE IF s[i] \in Whitespace THEN WordsFrom(s, i + 1)
    ELSE LET e == RunEnd(s, i, Alphabet \ Whitespace)
         IN << SubSeq(s, i, e) >> \o WordsFrom(s, e + 1)

Words(s) == WordsFrom(s, 1)

\* request q and indexed position p name the same seat up to the spacing of
\* the class name
SameSeat(q, p) ==
    /\ Indexable(p)
    /\ q[2] = IntOf(uploaded.cells[p].rv)
    /\ q[3] = IntOf(uploaded.cells[p].sv)
    /\ Words(q[1]) = Words(StrOf(uploaded.cells[p].cv))

\* C5: once the reconcile loop is over, a request that names the same row
\* and seat as an indexed position, with a class name that differs from the
\* sheet's at most in its spacing, is in matched and not in unmatched.
C5_SpacingInsensitiveMatch ==
    ReconcileOver =>
        \A i \in DOMAIN seats : \A p \in GridPos :
            SameSeat(seats[i], p) =>
                (seats[i] \in MatchedReqs /\ seats[i] \notin UnmatchedReqs)

C5_Witness ==
    /\ pc = "done"
    /\ \E i \in DOMAIN seats : \E p \in GridPos :
          /\ SameSeat(seats[i], p)
          /\ seats[i][1] # StrOf(uploaded.cells[p].cv)
          /\ seats[i][1] # normalize_class(seats[i][1])
          /\ StrOf(uploaded.cells[p].cv) # normalize_class(StrOf(uploaded.cells[p].cv))
          /\ seats[i] \in MatchedReqs

\* the blocks parse_seat_text goes through for the text of the run, trimmed
BlocksOfText ==
    LET blocks == SplitBlocks(ReplaceFullWidth(seat_text))
    IN {Strip(blocks[i]) : i \in DOMAIN blocks}

\* The two-token form of the grammar: the marker and one qualifier token,
\* then the row number, the row glyph and the seat list.
TwoTokenForm(b) ==
    IF Len(b) = 0 \/ b[1] # MARK THEN NoMatch
    ELSE LET e0 == RunEnd(b, 2, Whitespace)
             t1 == RunEnd(b, e0 + 1, NonSpace)
         IN IF e0 < 2 \/ t1 < e0 + 1 THEN NoMatch
            ELSE TailMatch(b, t1 + 1, SubSeq(b, 1, t1))

\* The three-token form: the marker and two qualifier tokens.
ThreeTokenForm(b) == MatchSecond(b)

\* C6: after the parse, for every block of the text that fits the grammar
\* in the two-token form and in the three-token form, the requests of the
\* two-token reading (its class name, its row, its seats) are among the
\* requests returned.
C6_TwoTokenFormFirst ==
    pc # "parse" =>
        \A b \in BlocksOfText :
            (TwoTokenForm(b).ok /\ ThreeTokenForm(b).ok) =>
                ResultSet(MatchRequests(TwoTokenForm(b))) \subseteq ResultSet(seats)

\* the pieces of a seat list: its longest runs of characters that are no
\* separators, as pairs of first and last index
Pieces(region) ==
    {ij \in (1..Len(region)) \X (1..Len(region)) :
        /\ ij[1] <= ij[2]
        /\ \A k \in ij[1]..ij[2] : region[k] \notin SeatSeps
        /\ (ij[1] = 1 \/ region[ij[1] - 1] \in SeatSeps)
        /\ (ij[2] = Len(region) \/ region[ij[2] + 1] \in SeatSeps)}

\* the numbers of the pieces that are decimal digits only
SeatNumbers(region) ==
    {IntOfDigits(SubSeq(region, ij[1], ij[2])) :
        ij \in {x \in Pieces(region) :
                  \A k \in x[1]..x[2] : region[k] \in DigitChars}}

\* the requests a block is to give: none when it does not match; when it
\* matches, one for each seat number, with the class name as it stands in
\* the block (first character the marker, last character of the last
\* qualifier token, the spacing between them untouched) and the row number
ExpectedOfBlock(b) ==
    LET m == MatchBlock(b)
    IN IF ~m.ok THEN {}
       ELSE {<< m.class, IntOfDigits(m.row), n >> : n \in SeatNumbers(m.seat)}

\* C7: what parse_seat_text returns holds, for every block that matches the
\* grammar, exactly one request for each distinct number among the decimal
\* pieces of its seat list, nothing for a block that does not match, nothing
\* else, and no triple twice.
C7_OneRequestPerSeatNumber ==
    pc # "parse" =>
        /\ ResultSet(seats) = UNION {ExpectedOfBlock(b) : b \in BlocksOfText}
        /\ Len(seats) = Cardinality(ResultSet(seats))

C7_Witness ==
    /\ pc = "load"
    /\ Len(seats) = 2
    /\ Len(ParseResults(seat_text)) > Len(seats)
    /\ \E b \in BlocksOfText : b # <<>> /\ ~MatchBlock(b).ok

\* C8: for two seat-entry statements A and B (each starting with the marker
\* and a whitespace character), the text A, newline, B and the text B,
\* newline, A give the same set of requests.
C8_OrderIndependent ==
    pc = "order_done" => resAB = resBA

C8_Witness ==
    /\ pc = "order_done"
    /\ blockA # blockB
    /\ ResultSet(ParseResults(blockA)) # {}
    /\ ResultSet(ParseResults(blockB)) # {}
    /\ ResultSet(ParseResults(blockA)) # ResultSet(ParseResults(blockB))
    /\ resAB = ResultSet(ParseResults(blockA)) \cup ResultSet(ParseResults(blockB))

\* p comes before or at q in row-major order
RowMajorLeq(p, q) == p[1] < q[1] \/ (p[1] = q[1] /\ p[2] <= q[2])

\* C9: after the scan, coord_map holds for each of its keys the last, in
\* row-major order, of the positions that give the key, it has no other
\* keys, and no error was raised.
C9_LastScannedWins ==
    pc \in {"reconcile", "done"} =>
        /\ err = NoError
        /\ \A key \in DOMAIN coord_map :
              /\ coord_map[key] \in PositionsOf(key)
              /\ \A p \in PositionsOf(key) : RowMajorLeq(p, coord_map[key])

C9_Witness ==
    /\ pc = "reconcile"
    /\ \E key \in DOMAIN coord_map :
          \E p \in PositionsOf(key) :
              /\ p[1] < coord_map[key][1]
              /\ p[2] > coord_map[key][2]

\* the coordinates of the requests i of seats, i < n, whose key is in the map
HitCoords(n) ==
    {coord_map[LookupKey(seats[i])] :
        i \in {j \in 1..(n - 1) : LookupKey(seats[j]) \in DOMAIN coord_map}}

\* C10: in the reconcile loop and after it, the cells that have the
\* highlight fill are exactly the coordinates coord_map gives for the keys
\* of the requests gone through, and every other cell has the fill it was
\* uploaded with; so a request that is not found changes no cell.
C10_FillFrame ==
    pc \in {"reconcile", "done"} =>
        LET hits == HitCoords(idx)
        IN \A p \in GridPos :
              /\ fill[p] = BLUE_FILL <=> p \in hits
              /\ fill[p] # BLUE_FILL => fill[p] = ORIG_FILL

C10_Witness ==
    /\ pc = "done"
    /\ idx = Len(seats) + 1
    /\ Len(unmatched) >= 1
    /\ Cardinality({p \in GridPos : fill[p] = BLUE_FILL}) = 1
    /\ \E p \in GridPos : Indexable(p) /\ fill[p] = ORIG_FILL

====
